---- MODULE Spec2Model ----
(***************************************************************************)
(* PulseRoute back end: the transfer-request lifecycle engine and the      *)
(* realtime room broadcast.                                                *)
(*                                                                         *)
(* State is the content of the Firestore collections patients,             *)
(* transfer_requests and chat_rooms, plus the handler invocations that are *)
(* in flight.  Documents are never deleted, so a collection is a sequence  *)
(* and a document id is its index.                                         *)
(*                                                                         *)
(* Granularity.  register_patient and retry_match suspend at the await on  *)
(* the ranking call, so each is a begin step and an end step.              *)
(* accept_request issues separate, non-transactional Firestore calls; it   *)
(* is one step per storage call that another handler can observe.          *)
(* create_transfer_request, complete_transfer and reject_request have no   *)
(* suspension point and are one step each.                                 *)
(*                                                                         *)
(* Storage failures.  FirebaseClient.update_transfer_request and           *)
(* get_requests_for_patient swallow a failed call (False / []),            *)
(* get_transfer_request returns None, create_chat_room raises.  Each call  *)
(* made by accept_request may fail; the other handlers are modelled with   *)
(* storage calls that succeed.  At most one accept_request is in flight    *)
(* on a request at a time.                                                 *)
(*                                                                         *)
(* Realtime transport.  ConnectionManager.active_connections maps a room   *)
(* id to the set of websockets registered for it; a websocket_endpoint     *)
(* invocation runs per websocket.  A handler suspends at receive_text and  *)
(* at every send_json of ConnectionManager.broadcast, which iterates the   *)
(* registered set itself, so each send of a broadcast is a step.           *)
(* The registry lives in one server process; the collection chat_messages  *)
(* is shared with every other process that serves the same rooms.          *)
(* ChatService.create_message has no await, so no handler of this process  *)
(* runs between its storage calls; what other processes write between      *)
(* them is an input of the step.                                           *)
(***************************************************************************)
EXTENDS Integers, Sequences, FiniteSets, TLC

\* ---- bounds -------------------------------------------------------------
MaxPatients == 2
MaxRequests == 2
MaxRooms == 2
MaxCalls == 2
MaxCands == 1
MaxSuspended == 1
MaxBroadcasts == 2
MaxMessages == 2

\* ---- actors and inputs ---------------------------------------------------
EmsUnits == {"e1", "e2"}
\* the unit that registers patients; the other one only calls in on them
Registrars == {"e1"}
Hospitals == {"hosp01", "hosp02"}
None == "None"
DefaultReason == "default_reason"
Reasons == {"full", None}

\* the hospital id create_transfer_request writes into every request
demo_hospital_id == "hosp01"

\* matched_hospitals[:10]
FanOutLimit == 10

\* what a route answers; PENDING: the handler has not returned yet
HTTP_OK == "200 OK"
HTTP_BAD_REQUEST == "400 Bad Request"
HTTP_FORBIDDEN == "403 Forbidden"
HTTP_NOT_FOUND == "404 Not Found"
HTTP_CONFLICT == "409 Conflict"
HTTP_SERVER_ERROR == "500 Internal Server Error"
PENDING == "pending answer"

Min(a, b) == IF a < b THEN a ELSE b

SeqsUpTo(S, n) == UNION {[1..k -> S] : k \in 0..n}

\* names are sequences of characters; " " is whitespace
Payloads == {[name |-> <<" ", "a">>, age |-> 0, gender |-> "F"],
             [name |-> <<"a">>, age |-> 150, gender |-> "M"],
             [name |-> <<" ">>, age |-> 30, gender |-> "M"],
             [name |-> <<"a">>, age |-> 151, gender |-> "X"]}

\* str.strip(): drop leading and trailing whitespace
RECURSIVE lstrip(_)
lstrip(s) == IF s # <<>> /\ Head(s) = " " THEN lstrip(Tail(s)) ELSE s

RECURSIVE rstrip(_)
rstrip(s) == IF s # <<>> /\ s[Len(s)] = " " THEN rstrip(SubSeq(s, 1, Len(s) - 1)) ELSE s

strip(s) == rstrip(lstrip(s))

validate_patient_data(name, age, gender) ==
    IF name = <<>> \/ Len(strip(name)) = 0 THEN FALSE
    ELSE IF age < 0 \/ age > 150 THEN FALSE
    ELSE IF gender \notin {"M", "F"} THEN FALSE
    ELSE TRUE

\* ---- the ranking oracle --------------------------------------------------
\* a response of the ranking service: a failure (timeout, network error,
\* non-200) or status 200 with a ranked list of hospital ids
RankFailure == [ok |-> FALSE, ranked_hospitals |-> <<>>]
RankResponses == {RankFailure} \cup [ok : {TRUE}, ranked_hospitals : SeqsUpTo(Hospitals, MaxCands)]

_fallback_distance_based_matching == <<>>

get_ml_matches_local_fallback(resp) ==
    IF resp.ok THEN resp.ranked_hospitals ELSE <<demo_hospital_id>>

_get_ml_matches(resp) ==
    IF resp.ok THEN resp.ranked_hospitals ELSE _fallback_distance_based_matching

\* ---- state ---------------------------------------------------------------
VARIABLES
    patients,      \* collection "patients": seq of [ems_unit_id, status]
    requests,      \* collection "transfer_requests"
    chat_rooms,    \* collection "chat_rooms"
    registering,   \* patients whose register_patient awaits the ranking call
    retrying,      \* patients for which a retry_match awaits the ranking call
    calls,         \* accept_request invocations in flight, by request id
    active_connections,   \* ConnectionManager.active_connections: room_id -> set of websockets
    handlers,      \* websocket_endpoint invocations, by websocket
    chat_messages, \* collection "chat_messages", in timestamp order
    invocation_order,  \* history: the handlers whose broadcast is in progress, oldest call first
    overtaken      \* history: per broadcast in progress, the connections that a broadcast
                   \* called later has delivered to before this one has sent to them

storage_vars == <<patients, requests, chat_rooms, registering, retrying, calls>>
chat_vars == <<active_connections, handlers, chat_messages, invocation_order, overtaken>>
vars == <<patients, requests, chat_rooms, registering, retrying, calls,
          active_connections, handlers, chat_messages, invocation_order, overtaken>>

PatientIds == 1..Len(patients)
RequestIds == 1..Len(requests)
RoomIds == 1..Len(chat_rooms)

\* ids a caller may present: every existing one and one that does not exist
AskPatientIds == 1..(Len(patients) + 1)
AskRequestIds == 1..(Len(requests) + 1)

\* pc and todo are the invocation's position and the siblings it has still to
\* cancel; was_pending (the patient's pending requests when it began) and
\* failed (one of its storage calls failed) record its history
IdleCall == [pc |-> "idle", todo |-> {}, was_pending |-> {}, failed |-> FALSE]

\* the websockets that open /ws/{room_id} and the room ids they ask for
WebSockets == {"ws1", "ws2", "ws3"}
\* the party at the other end of each websocket; the endpoint takes no
\* credentials, so the handler never learns it
opened_by == [ws1 |-> "e1", ws2 |-> "e2", ws3 |-> "hosp01"]
ChatRoomKeys == {"roomA", "roomB"}

\* a websocket_endpoint invocation.  pc: "new" (not opened), "bcast"
\* (suspended in a send_json of manager.broadcast), "recv" (suspended in
\* receive_text), "done" (returned or raised).  While pc = "bcast": event is
\* the message being broadcast, cur the connection being sent to, visited
\* the connections the set iterator has yielded, used the size of the set
\* when the iterator was made, disconnected the local set of that name,
\* next the position the handler continues at when broadcast returns,
\* at_start the room's set when the broadcast began, message the
\* created_message a "message" event is built from.
NoMessage == [room_id |-> None, sender_id |-> None, sender_type |-> None, message |-> None]

IdleHandler ==
    [pc |-> "new", room_id |-> None, next |-> None, event |-> None, cur |-> None,
     visited |-> {}, used |-> 0, disconnected |-> {}, at_start |-> {},
     message |-> NoMessage]

\* a handler that is not in a broadcast: at receive_text, or ended
handler_at(pc, room_id) == [IdleHandler EXCEPT !.pc = pc, !.room_id = room_id]

Init ==
    /\ patients = <<>>
    /\ requests = <<>>
    /\ chat_rooms = <<>>
    /\ registering = {}
    /\ retrying = {}
    /\ calls = <<>>
    /\ active_connections = <<>>
    /\ handlers = [w \in WebSockets |-> IdleHandler]
    /\ chat_messages = <<>>
    /\ invocation_order = <<>>
    /\ overtaken = [w \in WebSockets |-> {}]

\* ---- FirebaseClient ------------------------------------------------------
\* Optional[Dict]: <<doc>> or <<>> for None
get_patient(pid) == IF pid \in PatientIds THEN <<patients[pid]>> ELSE <<>>

update_patient(ps, pid, st) == [ps EXCEPT ![pid].status = st]

get_transfer_request(rid) == IF rid \in RequestIds THEN <<requests[rid]>> ELSE <<>>

update_transfer_request(rs, rid, st) == [rs EXCEPT ![rid].status = st]

get_requests_for_patient(pid) == {r \in RequestIds : requests[r].patient_id = pid}

NewRequest(pid, ems, hid) ==
    [patient_id |-> pid, ems_unit_id |-> ems, hospital_id |-> hid,
     status |-> "pending", rejection_reason |-> None]

create_chat_room(rooms, pid, ems, hid) ==
    Append(rooms, [patient_id |-> pid, ems_unit_id |-> ems, hospital_id |-> hid,
                   is_active |-> TRUE])

\* the document ids the websockets ask for are those of the first chat rooms
ChatRoomDocId == [roomA |-> 1, roomB |-> 2]

get_chat_room(room_id) ==
    IF ChatRoomDocId[room_id] \in RoomIds THEN <<chat_rooms[ChatRoomDocId[room_id]]>> ELSE <<>>

create_chat_message(msgs, message_data) == Append(msgs, message_data)

\* get_chat_messages(room_id, 1): the room's message with the latest timestamp
get_chat_messages_1(msgs, room_id) ==
    LET of_room == SelectSeq(msgs, LAMBDA m : m.room_id = room_id)
    IN  IF of_room = <<>> THEN <<>> ELSE <<of_room[Len(of_room)]>>

Suspended == Cardinality(registering) + Cardinality(retrying)

\* ---- PatientService.register_patient -------------------------------------
\* The service returns None for an invalid payload; the route raises HTTP 400
\* for None inside its own try block, whose "except Exception" answers 500.
register_patient_http(payload) ==
    IF validate_patient_data(payload.name, payload.age, payload.gender)
    THEN HTTP_OK ELSE HTTP_SERVER_ERROR

\* up to the await on the ranking call: validation and create_patient
register_patient_begin(ems, payload) ==
    /\ UNCHANGED chat_vars
    /\ UNCHANGED <<requests, chat_rooms, retrying, calls>>
    /\ IF ~validate_patient_data(payload.name, payload.age, payload.gender)
       THEN UNCHANGED <<patients, registering>>
       ELSE /\ Len(patients) < MaxPatients
            /\ Suspended < MaxSuspended
            /\ patients' = Append(patients, [ems_unit_id |-> ems, status |-> "searching"])
            /\ registering' = registering \cup {Len(patients) + 1}

\* the fan-out of _create_transfer_requests, which no handler calls
_create_transfer_requests(rs, pid, ems, matched_hospitals) ==
    rs \o [i \in 1..Min(FanOutLimit, Len(matched_hospitals)) |->
              NewRequest(pid, ems, matched_hospitals[i])]

register_patient_end_with_fanout(pid, resp) ==
    /\ UNCHANGED chat_vars
    /\ pid \in registering
    /\ registering' = registering \ {pid}
    /\ patients' = IF _get_ml_matches(resp) = <<>> THEN patients
                   ELSE update_patient(patients, pid, "matched")
    /\ requests' = _create_transfer_requests(requests, pid, patients[pid].ems_unit_id,
                                             _get_ml_matches(resp))
    /\ calls' = calls \o [i \in 1..(Len(requests') - Len(requests)) |-> IdleCall]
    /\ UNCHANGED <<chat_rooms, retrying>>

\* what register_patient answers for the patient document it reads back:
\* matched_hospitals is attached only when it is not empty
register_patient_response(patient, resp) ==
    [http |-> HTTP_OK, status |-> patient.status,
     matched_hospitals |-> IF _get_ml_matches(resp) # <<>> THEN <<_get_ml_matches(resp)>> ELSE <<>>]

register_patient_end_requesting(pid, resp) ==
    /\ UNCHANGED chat_vars
    /\ pid \in registering
    /\ registering' = registering \ {pid}
    /\ patients' = IF _get_ml_matches(resp) = <<>> THEN patients
                   ELSE update_patient(patients, pid, "requesting")
    /\ UNCHANGED <<requests, chat_rooms, retrying, calls>>

\* after the await: the ranking response has arrived
register_patient_end(pid, resp) ==
    /\ UNCHANGED chat_vars
    /\ pid \in registering
    /\ registering' = registering \ {pid}
    /\ patients' = IF _get_ml_matches(resp) = <<>> THEN patients
                   ELSE update_patient(patients, pid, "matched")
    /\ UNCHANGED <<requests, chat_rooms, retrying, calls>>

\* ---- PatientService.retry_match ------------------------------------------
retry_match_check(pid) ==
    IF get_patient(pid) = <<>> THEN "absent"
    ELSE IF patients[pid].status # "searching" THEN "not_searching"
    ELSE "proceed"

\* up to the await: get_patient and the status check
retry_match_begin(pid) ==
    /\ UNCHANGED chat_vars
    /\ UNCHANGED <<patients, requests, chat_rooms, registering, calls>>
    /\ IF retry_match_check(pid) # "proceed"
       THEN UNCHANGED retrying
       ELSE /\ pid \notin retrying
            /\ Suspended < MaxSuspended
            /\ retrying' = retrying \cup {pid}

\* the route answers 400 for the None of a failed check
retry_match_begin_http(pid) ==
    IF retry_match_check(pid) # "proceed" THEN HTTP_BAD_REQUEST ELSE PENDING

\* None (no candidates) is HTTP 400 at the route
retry_match_http(resp) ==
    IF _get_ml_matches(resp) = <<>> THEN HTTP_BAD_REQUEST ELSE HTTP_OK

retry_match_end_unchecked(pid, resp) ==
    /\ UNCHANGED chat_vars
    /\ pid \in retrying
    /\ retrying' = retrying \ {pid}
    /\ patients' = update_patient(patients, pid, "matched")
    /\ UNCHANGED <<requests, chat_rooms, registering, calls>>

\* after the await
retry_match_end(pid, resp) ==
    /\ UNCHANGED chat_vars
    /\ pid \in retrying
    /\ retrying' = retrying \ {pid}
    /\ patients' = IF _get_ml_matches(resp) = <<>> THEN patients
                   ELSE update_patient(patients, pid, "matched")
    /\ UNCHANGED <<requests, chat_rooms, registering, calls>>

\* ---- PatientService.complete_transfer ------------------------------------
complete_transfer_check_any_unit(pid, ems) ==
    IF get_patient(pid) = <<>> THEN "absent"
    ELSE IF patients[pid].status = "transferred" THEN "already"
    ELSE "proceed"

complete_transfer_check_once(pid, ems) ==
    IF get_patient(pid) = <<>> THEN "absent"
    ELSE IF patients[pid].ems_unit_id # ems THEN "not_owner"
    ELSE IF patients[pid].status = "transferred" THEN "absent"
    ELSE "proceed"

complete_transfer_check(pid, ems) ==
    IF get_patient(pid) = <<>> THEN "absent"
    ELSE IF patients[pid].ems_unit_id # ems THEN "not_owner"
    ELSE IF patients[pid].status = "transferred" THEN "already"
    ELSE "proceed"

complete_transfer_http(pid, ems) ==
    IF complete_transfer_check(pid, ems) \in {"absent", "not_owner"}
    THEN HTTP_NOT_FOUND ELSE HTTP_OK

\* what the route answers: the status code and, when it is 200, the status
\* of the patient document returned (ps: the patients as stored on return)
complete_transfer_response(ps, pid, ems) ==
    [http |-> complete_transfer_http(pid, ems),
     status |-> IF complete_transfer_http(pid, ems) = HTTP_OK THEN ps[pid].status ELSE None]

complete_transfer_closing_requests(pid, ems) ==
    /\ UNCHANGED chat_vars
    /\ UNCHANGED <<chat_rooms, registering, retrying, calls>>
    /\ IF complete_transfer_check(pid, ems) # "proceed"
       THEN UNCHANGED <<patients, requests>>
       ELSE /\ patients' = update_patient(patients, pid, "transferred")
            /\ requests' = [r \in RequestIds |->
                              IF requests[r].patient_id = pid /\ requests[r].status = "pending"
                              THEN [requests[r] EXCEPT !.status = "cancelled"]
                              ELSE requests[r]]

complete_transfer(pid, ems) ==
    /\ UNCHANGED chat_vars
    /\ UNCHANGED <<requests, chat_rooms, registering, retrying, calls>>
    /\ IF complete_transfer_check(pid, ems) # "proceed"
       THEN UNCHANGED patients
       ELSE patients' = update_patient(patients, pid, "transferred")

\* ---- PatientService.create_transfer_request ------------------------------
create_transfer_request_check(pid, ems) ==
    IF get_patient(pid) = <<>> THEN "absent"
    ELSE IF patients[pid].ems_unit_id # ems THEN "not_owner"
    ELSE IF patients[pid].status = "transferred" THEN "transferred"
    ELSE "proceed"

\* every None of the service is HTTP 400 at the route
create_transfer_request_http(pid, ems) ==
    IF create_transfer_request_check(pid, ems) = "proceed" THEN HTTP_OK ELSE HTTP_BAD_REQUEST

\* hid is the hospital_id of the request body; the stored request carries
\* demo_hospital_id instead
create_transfer_request(pid, ems, hid) ==
    /\ UNCHANGED chat_vars
    /\ UNCHANGED <<chat_rooms, registering, retrying>>
    /\ IF create_transfer_request_check(pid, ems) # "proceed"
       THEN UNCHANGED <<patients, requests, calls>>
       ELSE /\ Len(requests) < MaxRequests
            /\ requests' = Append(requests, NewRequest(pid, ems, demo_hospital_id))
            /\ calls' = Append(calls, IdleCall)
            /\ patients' = update_patient(patients, pid, "requesting")

\* ---- HospitalService.accept_request --------------------------------------
\* calls[rid] is the accept_request invocation in flight on request rid
BusyCalls == {r \in DOMAIN calls : calls[r].pc # "idle"}

accept_request_check_any_hospital(rid, h, fail) ==
    IF fail = "get" \/ get_transfer_request(rid) = <<>> THEN "absent"
    ELSE "proceed"

\* lines 58-66: get_transfer_request (None when the read fails) and the two
\* checks
accept_request_check(rid, h, fail) ==
    IF fail = "get" \/ get_transfer_request(rid) = <<>> THEN "absent"
    ELSE IF requests[rid].hospital_id # h THEN "not_addressee"
    ELSE "proceed"

\* the route answers 404 for the None of a failed check
accept_begin_http(rid, h, fail) ==
    IF accept_request_check(rid, h, fail) # "proceed" THEN HTTP_NOT_FOUND ELSE PENDING

\* lines 56-72: the checks and the write of "accepted".  The checks read only
\* fields that never change, so the read and the write are one step.
accept_begin(rid, h, fail) ==
    /\ UNCHANGED chat_vars
    /\ fail \in {"none", "get", "write"}
    /\ UNCHANGED <<patients, chat_rooms, registering, retrying>>
    /\ IF accept_request_check(rid, h, fail) # "proceed"
       THEN UNCHANGED <<requests, calls>>
       ELSE /\ calls[rid].pc = "idle"
            /\ Cardinality(BusyCalls) < MaxCalls
            /\ Len(chat_rooms) + Cardinality(BusyCalls) < MaxRooms
            /\ requests' = IF fail = "write" THEN requests
                           ELSE update_transfer_request(requests, rid, "accepted")
            /\ calls' = [calls EXCEPT ![rid] =
                            [pc |-> "read", todo |-> {},
                             was_pending |-> {r \in get_requests_for_patient(requests[rid].patient_id) :
                                                 requests[r].status = "pending"},
                             failed |-> fail # "none"]]

\* lines 75-79: get_requests_for_patient ([] when the read fails) and the
\* filter of the loop, on the statuses as read here
siblings_to_cancel(rid, all_requests) ==
    {r \in all_requests : r # rid /\ requests[r].status = "pending"}

accept_read(rid, fail) ==
    /\ UNCHANGED chat_vars
    /\ calls[rid].pc = "read"
    /\ fail \in {"none", "read"}
    /\ LET all_requests == IF fail = "read" THEN {}
                           ELSE get_requests_for_patient(requests[rid].patient_id)
           todo == siblings_to_cancel(rid, all_requests)
       IN  calls' = [calls EXCEPT ![rid].pc = IF todo = {} THEN "room" ELSE "cancel",
                                  ![rid].todo = todo,
                                  ![rid].failed = @ \/ fail # "none"]
    /\ UNCHANGED <<patients, requests, chat_rooms, registering, retrying>>

\* lines 80-83: one write of "cancelled"; a failed write is not noticed
accept_cancel(rid, r, fail) ==
    /\ UNCHANGED chat_vars
    /\ calls[rid].pc = "cancel"
    /\ r \in calls[rid].todo
    /\ fail \in {"none", "write"}
    /\ requests' = IF fail = "write" THEN requests
                   ELSE update_transfer_request(requests, r, "cancelled")
    /\ calls' = [calls EXCEPT ![rid].pc = IF calls[rid].todo = {r} THEN "room" ELSE "cancel",
                              ![rid].todo = @ \ {r},
                              ![rid].failed = @ \/ fail # "none"]
    /\ UNCHANGED <<patients, chat_rooms, registering, retrying>>

\* create_chat_room raises when it fails and the service returns None; the
\* final get_transfer_request returns None when it fails; None is HTTP 404
accept_finish_http(fail) == IF fail = "none" THEN HTTP_OK ELSE HTTP_NOT_FOUND

\* lines 85-104: create_chat_room, the final get_transfer_request, return
accept_finish(rid, fail) ==
    /\ UNCHANGED chat_vars
    /\ calls[rid].pc = "room"
    /\ fail \in {"none", "room", "get"}
    /\ calls' = [calls EXCEPT ![rid] = IdleCall]
    /\ chat_rooms' = IF fail = "room" THEN chat_rooms
                     ELSE create_chat_room(chat_rooms, requests[rid].patient_id,
                                           requests[rid].ems_unit_id, requests[rid].hospital_id)
    /\ UNCHANGED <<patients, requests, registering, retrying>>

\* ---- HospitalService.reject_request --------------------------------------
reject_request_check(rid, h) ==
    IF get_transfer_request(rid) = <<>> THEN "absent"
    ELSE IF requests[rid].hospital_id # h THEN "not_addressee"
    ELSE "proceed"

reject_request_http(rid, h) ==
    IF reject_request_check(rid, h) = "proceed" THEN HTTP_OK ELSE HTTP_NOT_FOUND

reject_request_with_cascade(rid, h, reason) ==
    /\ UNCHANGED chat_vars
    /\ UNCHANGED <<patients, chat_rooms, registering, retrying, calls>>
    /\ IF reject_request_check(rid, h) # "proceed"
       THEN UNCHANGED requests
       ELSE requests' = [r \in RequestIds |->
                IF r = rid
                THEN [requests[r] EXCEPT !.status = "rejected",
                                         !.rejection_reason =
                                             IF reason = None THEN DefaultReason ELSE reason]
                ELSE IF requests[r].patient_id = requests[rid].patient_id
                        /\ requests[r].status = "pending"
                     THEN [requests[r] EXCEPT !.status = "cancelled"]
                     ELSE requests[r]]

\* reason is the rejection_reason of the body; the route passes the default
\* when it is missing
reject_request(rid, h, reason) ==
    /\ UNCHANGED chat_vars
    /\ UNCHANGED <<patients, chat_rooms, registering, retrying, calls>>
    /\ IF reject_request_check(rid, h) # "proceed"
       THEN UNCHANGED requests
       ELSE requests' = [requests EXCEPT ![rid].status = "rejected",
                                         ![rid].rejection_reason =
                                             IF reason = None THEN DefaultReason ELSE reason]

\* ---- ConnectionManager ---------------------------------------------------
\* active_connections.get(room_id, set())
members(ac, room_id) == IF room_id \in DOMAIN ac THEN ac[room_id] ELSE {}

\* connect, after websocket.accept(): the room's set is made when missing
connect(ac, room_id, w) ==
    [r \in DOMAIN ac \cup {room_id} |->
        IF r = room_id THEN members(ac, r) \cup {w} ELSE ac[r]]

disconnect(ac, room_id, w) ==
    IF room_id \in DOMAIN ac THEN [ac EXCEPT ![room_id] = @ \ {w}] ELSE ac

\* the last line of broadcast: the set is updated in place
remove_disconnected(ac, room_id, disconnected) ==
    [ac EXCEPT ![room_id] = @ \ disconnected]

\* the handlers suspended in a broadcast
Broadcasting == {w \in WebSockets : handlers[w].pc = "bcast"}

\* Iteration over a room's set.  A set iterator walks the hash table by
\* index and yields the entries it finds.  The slot of a websocket follows
\* from its hash (its address), a discard leaves the other entries where
\* they are, and a table with fewer than five entries is never resized: the
\* websockets keep their relative order, and the model names them in that
\* order.
TablePosition == [ws1 |-> 1, ws2 |-> 2, ws3 |-> 3]

\* the entries the iterator has still to pass when it has yielded cur
\* (None: the iteration begins)
set_iter_rest(live, cur) ==
    {c \in live : cur = None \/ TablePosition[c] > TablePosition[cur]}

\* the entry it yields next, for a non-empty rest
set_iter_next(live, cur) ==
    CHOOSE c \in set_iter_rest(live, cur) :
        \A d \in set_iter_rest(live, cur) : TablePosition[c] <= TablePosition[d]

\* broadcast, up to its first await: the handlers h can become when it calls
\* broadcast(room_id, event) on the registry ac and continues at next.  An
\* absent room or an empty set lets broadcast return without suspending;
\* otherwise the iterator yields the first connection and send_json suspends.
broadcast_begin(h, ac, room_id, event, next) ==
    IF members(ac, room_id) = {}
    THEN {handler_at(next, IF next = "done" THEN None ELSE h.room_id)}
    ELSE {[h EXCEPT !.pc = "bcast", !.next = next, !.event = event,
                    !.cur = set_iter_next(ac[room_id], None),
                    !.visited = {set_iter_next(ac[room_id], None)},
                    !.used = Cardinality(ac[room_id]),
                    !.disconnected = {}, !.at_start = ac[room_id]]}

\* The history of a step of handler w, c being the connection to which a
\* send_json of w's broadcast has returned in it (None: no send returned).
\* A broadcast enters invocation_order when it is called and leaves it when
\* it returns or raises.
PositionOf(x) == CHOOSE i \in DOMAIN invocation_order : invocation_order[i] = x

track_broadcasts(w, c) ==
    /\ invocation_order' =
          SelectSeq(invocation_order, LAMBDA x : handlers'[x].pc = "bcast")
              \o (IF handlers[w].pc # "bcast" /\ handlers'[w].pc = "bcast" THEN <<w>> ELSE <<>>)
    /\ overtaken' =
          [x \in WebSockets |->
              IF handlers[x].pc = "bcast" /\ handlers'[x].pc = "bcast"
              THEN overtaken[x] \cup
                      (IF /\ c # None
                          /\ x # w
                          /\ PositionOf(x) < PositionOf(w)
                          /\ handlers[x].room_id = handlers[w].room_id
                          /\ c \notin handlers[x].visited
                       THEN {c} ELSE {})
              ELSE {}]

\* ---- websocket_endpoint --------------------------------------------------
\* what the handler reads from receive_text: the peer has gone
\* (WebSocketDisconnect), text that is not JSON, JSON that is not an object,
\* or a JSON object, of which the handler reads sender_id, sender_type and
\* message with dict.get (None for a missing key)
Frame(kind, sender_id, sender_type, message) ==
    [kind |-> kind, sender_id |-> sender_id, sender_type |-> sender_type,
     message |-> message]

ObjectFrames ==
    {Frame("object", "e1", "ems", "hello"),
     Frame("object", "hosp01", "hospital", "ready"),
     Frame("object", "e2", "ems", "hello"),
     Frame("object", "e2", "admin", "hello"),
     Frame("object", None, None, None)}

Frames ==
    {Frame(kind, None, None, None) : kind \in {"disconnect", "not_json", "not_object"}}
        \cup ObjectFrames

\* ---- ChatService.create_message -----------------------------------------
\* lines 108-122: the room exists and neither of the two checks returns None
create_message_check(room_id, sender_id, sender_type) ==
    /\ get_chat_room(room_id) # <<>>
    /\ ~(sender_type = "ems" /\ get_chat_room(room_id)[1].ems_unit_id # sender_id)
    /\ ~(sender_type = "hospital" /\ get_chat_room(room_id)[1].hospital_id # sender_id)

message_data(room_id, frame) ==
    [room_id |-> room_id, sender_id |-> frame.sender_id,
     sender_type |-> frame.sender_type, message |-> frame.message]

\* what other server processes may write to the collection between the
\* create_chat_message and the get_chat_messages of one create_message: the
\* messages their own create_message lets through
OtherPosts ==
    {<<>>} \cup {<<message_data(room_id, frame)>> :
                    room_id \in {r \in ChatRoomKeys :
                                    /\ get_chat_room(r) # <<>>},
                    frame \in {f \in ObjectFrames : f.sender_type \in {"ems", "hospital"}}}

\* the collection after create_message, concurrent being what other
\* processes wrote meanwhile
create_message_stored(msgs, room_id, frame, concurrent) ==
    IF create_message_check(room_id, frame.sender_id, frame.sender_type)
    THEN create_chat_message(msgs, message_data(room_id, frame)) \o concurrent
    ELSE msgs

\* Optional[Dict]: <<created_message>> or <<>> for None
create_message(msgs, room_id, frame, concurrent) ==
    IF create_message_check(room_id, frame.sender_id, frame.sender_type)
    THEN get_chat_messages_1(create_message_stored(msgs, room_id, frame, concurrent), room_id)
    ELSE <<>>

\* lines 126-133: connect and the broadcast of the "joined" event, up to its
\* first send.  accepted = FALSE: websocket.accept() raises, and the handler
\* ends in "except Exception" (close, then manager.disconnect).
ws_connect(w, room_id, accepted) ==
    /\ UNCHANGED storage_vars
    /\ UNCHANGED chat_messages
    /\ handlers[w].pc = "new"
    /\ IF ~accepted
       THEN /\ active_connections' = disconnect(active_connections, room_id, w)
            /\ handlers' = [handlers EXCEPT ![w] = handler_at("done", None)]
       ELSE /\ Cardinality(Broadcasting) < MaxBroadcasts
            /\ active_connections' = connect(active_connections, room_id, w)
            /\ \E h \in broadcast_begin([handlers[w] EXCEPT !.room_id = room_id],
                                         active_connections', room_id, "joined", "recv") :
                  handlers' = [handlers EXCEPT ![w] = h]
    /\ track_broadcasts(w, None)

\* lines 46-54: the send_json in flight returns (delivered) or raises; then
\* the for statement asks the set iterator for the next connection.  The
\* iterator raises RuntimeError when the size of the set differs from the
\* size it had when the iteration began: outside the try of the loop, so
\* broadcast raises.  In the handler this is "except Exception" (close,
\* manager.disconnect) when the broadcast was called from the try block, and
\* an exception that leaves the handler when it was called from
\* "except WebSocketDisconnect".  With the size unchanged the iterator
\* yields the next entry of the table, or is exhausted; a connection that
\* joined behind the iterator (while another one left) is not yielded.
broadcast_raises(w) ==
    Cardinality(active_connections[handlers[w].room_id]) # handlers[w].used

\* the connections whose send_json has returned, and those whose send_json
\* has raised, when the send in flight ends as delivered says
broadcast_sent(w, delivered) ==
    (handlers[w].visited \ handlers[w].disconnected)
        \ (IF delivered THEN {} ELSE {handlers[w].cur})

broadcast_disconnected(w, delivered) ==
    handlers[w].disconnected \cup (IF delivered THEN {} ELSE {handlers[w].cur})

broadcast_send(w, delivered) ==
    /\ UNCHANGED storage_vars
    /\ UNCHANGED chat_messages
    /\ handlers[w].pc = "bcast"
    /\ LET h == handlers[w]
           room_id == h.room_id
           live == active_connections[room_id]
       IN  IF broadcast_raises(w)
           THEN /\ handlers' = [handlers EXCEPT ![w] = handler_at("done", None)]
                /\ active_connections' = IF h.next = "done" THEN active_connections
                                         ELSE disconnect(active_connections, room_id, w)
           ELSE IF set_iter_rest(live, h.cur) # {}
           THEN /\ handlers' = [handlers EXCEPT ![w] =
                       [h EXCEPT !.cur = set_iter_next(live, h.cur),
                                 !.visited = @ \cup {set_iter_next(live, h.cur)},
                                 !.disconnected = broadcast_disconnected(w, delivered)]]
                /\ UNCHANGED active_connections
           ELSE /\ handlers' = [handlers EXCEPT ![w] =
                       handler_at(h.next, IF h.next = "done" THEN None ELSE room_id)]
                /\ active_connections' =
                      remove_disconnected(active_connections, room_id,
                                          broadcast_disconnected(w, delivered))
    /\ track_broadcasts(w, IF delivered THEN handlers[w].cur ELSE None)

\* lines 136-185: one receive_text and what follows it, up to the next await.
\* replied: the send_json of the error reply returns (TRUE) or raises.
\* concurrent: what other processes write during create_message.
ws_receive(w, frame, replied, concurrent) ==
    /\ UNCHANGED storage_vars
    /\ handlers[w].pc = "recv"
    /\ LET h == handlers[w]
           room_id == h.room_id
           created_message == create_message(chat_messages, room_id, frame, concurrent)
       IN  CASE frame.kind = "disconnect" ->
                  /\ Cardinality(Broadcasting) < MaxBroadcasts
                  /\ UNCHANGED chat_messages
                  /\ active_connections' = disconnect(active_connections, room_id, w)
                  /\ \E h2 \in broadcast_begin(h, active_connections', room_id, "left", "done") :
                        handlers' = [handlers EXCEPT ![w] = h2]
             [] frame.kind = "object" /\ created_message # <<>> ->
                  /\ Len(chat_messages) + 1 + Len(concurrent) <= MaxMessages
                  /\ Cardinality(Broadcasting) < MaxBroadcasts
                  /\ chat_messages' = create_message_stored(chat_messages, room_id, frame, concurrent)
                  /\ UNCHANGED active_connections
                  /\ \E h2 \in broadcast_begin([h EXCEPT !.message = created_message[1]],
                                                active_connections, room_id, "message", "recv") :
                        handlers' = [handlers EXCEPT ![w] = h2]
             [] (frame.kind = "object" /\ created_message = <<>>)
                  \/ (frame.kind = "not_json" /\ replied) ->
                  UNCHANGED <<active_connections, handlers, chat_messages>>
             [] frame.kind = "not_object" \/ (frame.kind = "not_json" /\ ~replied) ->
                  /\ UNCHANGED chat_messages
                  /\ active_connections' = disconnect(active_connections, room_id, w)
                  /\ handlers' = [handlers EXCEPT ![w] = handler_at("done", None)]
    /\ track_broadcasts(w, None)

\* The task of the handler is cancelled while it is suspended (receive_text,
\* or a send_json of a broadcast).  CancelledError is a BaseException: neither
\* "except WebSocketDisconnect" nor "except Exception" (in the handler, and in
\* the loop of broadcast) catches it, and the handler has no finally clause
\* around its body, so it ends without manager.disconnect.
ws_cancel(w) ==
    /\ UNCHANGED storage_vars
    /\ UNCHANGED chat_messages
    /\ handlers[w].pc \in {"bcast", "recv"}
    /\ handlers' = [handlers EXCEPT ![w] = handler_at("done", None)]
    /\ UNCHANGED active_connections
    /\ track_broadcasts(w, None)

\* ---- specification -------------------------------------------------------
Next ==
    \/ \E ems \in Registrars, payload \in Payloads : register_patient_begin(ems, payload)
    \/ \E pid \in PatientIds, resp \in RankResponses : register_patient_end(pid, resp)
    \/ \E pid \in AskPatientIds : retry_match_begin(pid)
    \/ \E pid \in PatientIds, resp \in RankResponses : retry_match_end(pid, resp)
    \/ \E pid \in AskPatientIds, ems \in EmsUnits : complete_transfer(pid, ems)
    \/ \E pid \in AskPatientIds, ems \in EmsUnits, hid \in Hospitals :
          create_transfer_request(pid, ems, hid)
    \/ \E rid \in AskRequestIds, h \in Hospitals, fail \in {"none", "get", "write"} :
          accept_begin(rid, h, fail)
    \/ \E rid \in RequestIds, fail \in {"none", "read"} : accept_read(rid, fail)
    \/ \E rid \in RequestIds, r \in RequestIds, fail \in {"none", "write"} :
          accept_cancel(rid, r, fail)
    \/ \E rid \in RequestIds, fail \in {"none", "room", "get"} : accept_finish(rid, fail)
    \/ \E rid \in AskRequestIds, h \in Hospitals, reason \in Reasons : reject_request(rid, h, reason)
    \/ \E w \in WebSockets, room_id \in ChatRoomKeys, accepted \in BOOLEAN :
          ws_connect(w, room_id, accepted)
    \/ \E w \in WebSockets, delivered \in BOOLEAN : broadcast_send(w, delivered)
    \/ \E w \in WebSockets, frame \in Frames, replied \in BOOLEAN, concurrent \in OtherPosts :
          ws_receive(w, frame, replied, concurrent)
    \/ \E w \in WebSockets : ws_cancel(w)

Spec == Init /\ [][Next]_vars

\* The handlers that read or write the patients collection.  accept_request
\* and reject_request never touch it.
NextPatient ==
    \/ \E ems \in Registrars, payload \in Payloads : register_patient_begin(ems, payload)
    \/ \E pid \in PatientIds, resp \in RankResponses : register_patient_end(pid, resp)
    \/ \E pid \in AskPatientIds : retry_match_begin(pid)
    \/ \E pid \in PatientIds, resp \in RankResponses : retry_match_end(pid, resp)
    \/ \E pid \in AskPatientIds, ems \in EmsUnits : complete_transfer(pid, ems)
    \/ \E pid \in AskPatientIds, ems \in EmsUnits, hid \in Hospitals :
          create_transfer_request(pid, ems, hid)

SpecPatient == Init /\ [][NextPatient]_vars

\* The handlers that read or write transfer_requests and chat_rooms, with
\* registration to bring patients into being.  accept_request and
\* reject_request never read a patient, so the patient-side handlers left
\* out here (retry_match, complete_transfer) cannot change what they do.
NextHospital ==
    \/ \E ems \in Registrars, payload \in Payloads : register_patient_begin(ems, payload)
    \/ \E pid \in PatientIds, resp \in RankResponses : register_patient_end(pid, resp)
    \/ \E pid \in AskPatientIds, ems \in EmsUnits, hid \in Hospitals :
          create_transfer_request(pid, ems, hid)
    \/ \E rid \in AskRequestIds, h \in Hospitals, fail \in {"none", "get", "write"} :
          accept_begin(rid, h, fail)
    \/ \E rid \in RequestIds, fail \in {"none", "read"} : accept_read(rid, fail)
    \/ \E rid \in RequestIds, r \in RequestIds, fail \in {"none", "write"} :
          accept_cancel(rid, r, fail)
    \/ \E rid \in RequestIds, fail \in {"none", "room", "get"} : accept_finish(rid, fail)
    \/ \E rid \in AskRequestIds, h \in Hospitals, reason \in Reasons : reject_request(rid, h, reason)

SpecHospital == Init /\ [][NextHospital]_vars

\* The same handlers with every storage call succeeding.
NextHospitalNoFault ==
    \/ \E ems \in Registrars, payload \in Payloads : register_patient_begin(ems, payload)
    \/ \E pid \in PatientIds, resp \in RankResponses : register_patient_end(pid, resp)
    \/ \E pid \in AskPatientIds, ems \in EmsUnits, hid \in Hospitals :
          create_transfer_request(pid, ems, hid)
    \/ \E rid \in AskRequestIds, h \in Hospitals : accept_begin(rid, h, "none")
    \/ \E rid \in RequestIds : accept_read(rid, "none")
    \/ \E rid \in RequestIds, r \in RequestIds : accept_cancel(rid, r, "none")
    \/ \E rid \in RequestIds : accept_finish(rid, "none")
    \/ \E rid \in AskRequestIds, h \in Hospitals, reason \in Reasons : reject_request(rid, h, reason)

SpecHospitalNoFault == Init /\ [][NextHospitalNoFault]_vars

\* complete_transfer next to the hospital handlers, once unit e1 has
\* registered two patients and asked twice for a hospital for the first.
InitRequested ==
    /\ patients = <<[ems_unit_id |-> "e1", status |-> "requesting"],
                    [ems_unit_id |-> "e1", status |-> "matched"]>>
    /\ requests = <<NewRequest(1, "e1", demo_hospital_id), NewRequest(1, "e1", demo_hospital_id)>>
    /\ chat_rooms = <<>>
    /\ registering = {}
    /\ retrying = {}
    /\ calls = <<IdleCall, IdleCall>>
    /\ active_connections = <<>>
    /\ handlers = [w \in WebSockets |-> IdleHandler]
    /\ chat_messages = <<>>
    /\ invocation_order = <<>>
    /\ overtaken = [w \in WebSockets |-> {}]

NextTransfer ==
    \/ \E pid \in AskPatientIds, ems \in EmsUnits : complete_transfer(pid, ems)
    \/ \E rid \in AskRequestIds, h \in Hospitals : accept_begin(rid, h, "none")
    \/ \E rid \in RequestIds : accept_read(rid, "none")
    \/ \E rid \in RequestIds, r \in RequestIds : accept_cancel(rid, r, "none")
    \/ \E rid \in RequestIds : accept_finish(rid, "none")
    \/ \E rid \in AskRequestIds, h \in Hospitals, reason \in Reasons : reject_request(rid, h, reason)

SpecTransfer == InitRequested /\ [][NextTransfer]_vars

\* The realtime transport: the websocket handlers and the registry of
\* connections.  No handler of it writes a Firestore collection modelled
\* here.
NextChat ==
    \/ \E w \in WebSockets, room_id \in ChatRoomKeys, accepted \in BOOLEAN :
          ws_connect(w, room_id, accepted)
    \/ \E w \in WebSockets, delivered \in BOOLEAN : broadcast_send(w, delivered)
    \/ \E w \in WebSockets, frame \in Frames, replied \in BOOLEAN, concurrent \in OtherPosts :
          ws_receive(w, frame, replied, concurrent)
    \/ \E w \in WebSockets : ws_cancel(w)

SpecChat == Init /\ [][NextChat]_vars

\* The realtime transport once a request of patient 1 has been accepted and
\* its chat room (room id roomA) made; no room has the id roomB.
InitAccepted ==
    /\ patients = <<[ems_unit_id |-> "e1", status |-> "requesting"]>>
    /\ requests = <<[NewRequest(1, "e1", demo_hospital_id) EXCEPT !.status = "accepted"]>>
    /\ chat_rooms = create_chat_room(<<>>, 1, "e1", demo_hospital_id)
    /\ registering = {}
    /\ retrying = {}
    /\ calls = <<IdleCall>>
    /\ active_connections = <<>>
    /\ handlers = [w \in WebSockets |-> IdleHandler]
    /\ chat_messages = <<>>
    /\ invocation_order = <<>>
    /\ overtaken = [w \in WebSockets |-> {}]

\* two of the websockets are opened
MessageSockets == {"ws1", "ws2"}

NextMessages ==
    \/ \E w \in MessageSockets, room_id \in ChatRoomKeys, accepted \in BOOLEAN :
          ws_connect(w, room_id, accepted)
    \/ \E w \in MessageSockets, delivered \in BOOLEAN : broadcast_send(w, delivered)
    \/ \E w \in MessageSockets, frame \in Frames, replied \in BOOLEAN, concurrent \in OtherPosts :
          ws_receive(w, frame, replied, concurrent)
    \/ \E w \in MessageSockets : ws_cancel(w)

SpecMessages == InitAccepted /\ [][NextMessages]_vars

\* ---- properties ----------------------------------------------------------
Siblings(rid) == get_requests_for_patient(requests[rid].patient_id) \ {rid}

AcceptedOf(pid) == {r \in get_requests_for_patient(pid) : requests[r].status = "accepted"}

Terminal(rid) == requests[rid].status \in {"accepted", "rejected", "cancelled"}

AcceptFails == {"none", "get", "write"}

\* C1: in every reachable state each patient has at most one TransferRequest
\* whose status is accepted.
C1_AtMostOneAccepted ==
    \A pid \in PatientIds : Cardinality(AcceptedOf(pid)) <= 1

\* C2: once a request of a patient is accepted, an accept_request on another
\* request of that patient, by the hospital it is addressed to, fails and
\* does not set it to accepted.
C2_SecondAcceptFails ==
    [][\A rid \in RequestIds, h \in Hospitals, fail \in AcceptFails :
          (/\ accept_begin(rid, h, fail)
           /\ h = requests[rid].hospital_id
           /\ \E r \in Siblings(rid) : requests[r].status = "accepted")
          => (/\ accept_begin_http(rid, h, fail) \in {HTTP_CONFLICT, HTTP_NOT_FOUND}
              /\ requests' = requests)]_vars

\* C3: an accept_request on one of a patient's pending requests that runs to
\* completion, none of its storage calls failing, leaves the target accepted
\* and every other request of the patient that was pending cancelled.
C3_CascadeComplete ==
    [][\A rid \in RequestIds :
          (accept_finish(rid, "none") /\ ~calls[rid].failed /\ rid \in calls[rid].was_pending)
          => (/\ requests'[rid].status = "accepted"
              /\ \A r \in calls[rid].was_pending \ {rid} : requests'[r].status = "cancelled")]_vars

\* C4: in no reachable state, the states between the writes of
\* accept_request included, does a patient have an accepted request while a
\* hospital can still accept or reject a pending request of the same patient.
C4_NoWindow ==
    \A r1 \in RequestIds : \A r2 \in Siblings(r1) :
        (requests[r1].status = "accepted" /\ requests[r2].status = "pending")
        => \A h \in Hospitals :
              /\ accept_request_check(r2, h, "none") # "proceed"
              /\ reject_request_check(r2, h) # "proceed"

\* C5: when a storage call of the cascade has failed (the write of accepted,
\* the read of the siblings, a write of cancelled), the accept_request fails
\* and does not leave its target accepted next to a pending sibling.
C5_CascadeAllOrNothing ==
    [][\A rid \in RequestIds, fail \in {"none", "room", "get"} :
          (accept_finish(rid, fail) /\ calls[rid].failed)
          => (/\ accept_finish_http(fail) # HTTP_OK
              /\ ~(/\ requests'[rid].status = "accepted"
                   /\ \E r \in Siblings(rid) : requests'[r].status = "pending"))]_vars

RoomsOf(rid) ==
    {k \in RoomIds : /\ chat_rooms[k].patient_id = requests[rid].patient_id
                     /\ chat_rooms[k].ems_unit_id = requests[rid].ems_unit_id
                     /\ chat_rooms[k].hospital_id = requests[rid].hospital_id
                     /\ chat_rooms[k].is_active}

\* C6: once every accept_request has returned, each accepted request has
\* exactly one active ChatRoom with its (patient, EMS unit, hospital) and no
\* ChatRoom is without an accepted request.
C6_OneRoomPerAccepted ==
    BusyCalls = {} =>
        /\ \A rid \in RequestIds :
              requests[rid].status = "accepted" => Cardinality(RoomsOf(rid)) = 1
        /\ \A k \in RoomIds :
              \E rid \in RequestIds : requests[rid].status = "accepted" /\ k \in RoomsOf(rid)

StatusRank(st) == CASE st = "searching" -> 0
                    [] st \in {"matched", "requesting"} -> 1
                    [] st = "transferred" -> 2

\* C7: a patient's status never moves backward in the order searching, then
\* matched/requesting, then transferred.
C7_StatusMonotonic ==
    [][\A pid \in PatientIds :
          StatusRank(patients'[pid].status) >= StatusRank(patients[pid].status)]_vars

\* C8: an accept_request or a reject_request on a request that has left
\* pending fails with Conflict and leaves the request's status unchanged.
C8_TerminalRequestsRefuse ==
    [][/\ \A rid \in RequestIds, h \in Hospitals, fail \in AcceptFails :
             (accept_begin(rid, h, fail) /\ fail # "get" /\ h = requests[rid].hospital_id
                 /\ Terminal(rid))
             => (accept_begin_http(rid, h, fail) = HTTP_CONFLICT /\ requests' = requests)
       /\ \A rid \in RequestIds, h \in Hospitals, reason \in Reasons :
             (reject_request(rid, h, reason) /\ h = requests[rid].hospital_id /\ Terminal(rid))
             => (reject_request_http(rid, h) = HTTP_CONFLICT /\ requests' = requests)]_vars

\* a step in which a matching pass (register after the await, or retry_match
\* after the await) obtains the ranking response resp for patient pid
MatchingPass(pid, resp) == register_patient_end(pid, resp) \/ retry_match_end(pid, resp)

\* C9 as stated: a matching pass that obtains n >= 1 candidates creates
\* min(10, n) pending requests, one per candidate in rank order, and the
\* patient's status becomes matched.
C9_FanOutCreated ==
    [][\A pid \in PatientIds, resp \in RankResponses :
          (MatchingPass(pid, resp) /\ resp.ok /\ Len(resp.ranked_hospitals) >= 1)
          => (/\ requests' = requests \o
                     [i \in 1..Min(FanOutLimit, Len(resp.ranked_hospitals)) |->
                         NewRequest(pid, patients[pid].ems_unit_id, resp.ranked_hospitals[i])]
              /\ patients'[pid].status = "matched")]_vars

\* C9 (amended): a matching pass that obtains n >= 1 candidates creates no
\* TransferRequest, and the patient's status becomes matched.
C9_MatchedWithoutFanOut ==
    [][\A pid \in PatientIds, resp \in RankResponses :
          (MatchingPass(pid, resp) /\ resp.ok /\ Len(resp.ranked_hospitals) >= 1)
          => (requests' = requests /\ patients'[pid].status = "matched")]_vars

C9_Witness ==
    \E pid \in PatientIds :
        /\ patients[pid].status = "matched"
        /\ pid \notin registering
        /\ get_requests_for_patient(pid) = {}

\* C10: when the ranking call of register fails or returns an empty list,
\* register answers OK with a patient that carries no candidate list, leaves
\* the stored patient as it is (searching, as created) and creates no
\* TransferRequest.
C10_RankingFailureIsSoft ==
    [][/\ \A pid \in PatientIds, resp \in RankResponses :
             (register_patient_end(pid, resp) /\ (~resp.ok \/ resp.ranked_hospitals = <<>>))
             => (/\ register_patient_response(patients'[pid], resp).http = HTTP_OK
                 /\ register_patient_response(patients'[pid], resp).matched_hospitals = <<>>
                 /\ patients' = patients
                 /\ requests' = requests)
       /\ \A ems \in Registrars, payload \in Payloads :
             (register_patient_begin(ems, payload) /\ Len(patients') > Len(patients))
             => (/\ patients'[Len(patients')].status = "searching"
                 /\ \A r \in 1..Len(requests') : requests'[r].patient_id # Len(patients'))]_vars

C10_Witness ==
    \E pid \in PatientIds :
        /\ pid \notin registering
        /\ patients[pid].status = "searching"
        /\ get_requests_for_patient(pid) = {}

\* C11: a retry_match on a patient that does not exist or is not searching
\* answers 400 and changes nothing; a retry_match whose ranking call fails or
\* returns no candidate answers 400, leaves every patient as stored and
\* creates no TransferRequest.
C11_RetryMatchFailsClean ==
    /\ [](\A pid \in AskPatientIds :
            (pid \notin PatientIds \/ patients[pid].status # "searching")
            => retry_match_begin_http(pid) = HTTP_BAD_REQUEST)
    /\ [][/\ \A pid \in AskPatientIds :
                (retry_match_begin(pid) /\ retry_match_begin_http(pid) = HTTP_BAD_REQUEST)
                => UNCHANGED vars
          /\ \A pid \in PatientIds, resp \in RankResponses :
                (retry_match_end(pid, resp) /\ (~resp.ok \/ resp.ranked_hospitals = <<>>))
                => (/\ retry_match_http(resp) = HTTP_BAD_REQUEST
                    /\ patients' = patients
                    /\ requests' = requests)]_vars

C11_Witness ==
    /\ \E pid \in retrying : patients[pid].status = "searching"
    /\ \E q \in PatientIds : q \notin registering /\ patients[q].status # "searching"

\* C12: a create_transfer_request that passes its checks appends exactly one
\* pending TransferRequest addressed to the hospital of the request body and
\* sets the patient's status to requesting.
C12_RequestForChosenHospital ==
    [][\A pid \in PatientIds, ems \in EmsUnits, hid \in Hospitals :
          (/\ create_transfer_request(pid, ems, hid)
           /\ create_transfer_request_check(pid, ems) = "proceed")
          => (/\ requests' = Append(requests, NewRequest(pid, ems, hid))
              /\ patients'[pid].status = "requesting")]_vars

\* C13: create_transfer_request answers NotFound for an absent patient,
\* Forbidden for a caller that is not the patient's owner and Conflict for a
\* transferred patient, and in each case creates no TransferRequest and
\* leaves every patient as stored.
C13_CreateRequestErrors ==
    /\ [](\A pid \in AskPatientIds, ems \in EmsUnits :
            /\ create_transfer_request_check(pid, ems) = "absent"
                  => create_transfer_request_http(pid, ems) = HTTP_NOT_FOUND
            /\ create_transfer_request_check(pid, ems) = "not_owner"
                  => create_transfer_request_http(pid, ems) = HTTP_FORBIDDEN
            /\ create_transfer_request_check(pid, ems) = "transferred"
                  => create_transfer_request_http(pid, ems) = HTTP_CONFLICT)
    /\ [][\A pid \in AskPatientIds, ems \in EmsUnits, hid \in Hospitals :
             (/\ create_transfer_request(pid, ems, hid)
              /\ create_transfer_request_check(pid, ems) # "proceed")
             => UNCHANGED <<patients, requests>>]_vars

\* C14: a complete_transfer by the owning EMS unit answers 200 with the
\* patient transferred, on a patient that is already transferred as well, and
\* on a patient that is already transferred it changes nothing.
C14_CompleteTransferIdempotent ==
    /\ [](\A pid \in PatientIds :
            patients[pid].status = "transferred"
            => complete_transfer_response(patients, pid, patients[pid].ems_unit_id)
                  = [http |-> HTTP_OK, status |-> "transferred"])
    /\ [][\A pid \in PatientIds :
             complete_transfer(pid, patients[pid].ems_unit_id)
             => (/\ complete_transfer_response(patients', pid, patients[pid].ems_unit_id)
                       = [http |-> HTTP_OK, status |-> "transferred"]
                 /\ patients[pid].status = "transferred" => UNCHANGED vars)]_vars

C14_Witness ==
    \E pid \in PatientIds :
        /\ patients[pid].status = "transferred"
        /\ complete_transfer_check(pid, patients[pid].ems_unit_id) = "already"

\* C15: a complete_transfer for a patient that does not exist, or by a unit
\* that is not the patient's owner, answers 404 and leaves every patient as
\* stored; and a step that makes a patient transferred is a complete_transfer
\* by the patient's owner.
C15_OnlyOwnerTransfers ==
    /\ [](\A pid \in AskPatientIds, ems \in EmsUnits :
            (pid \notin PatientIds \/ patients[pid].ems_unit_id # ems)
            => complete_transfer_http(pid, ems) = HTTP_NOT_FOUND)
    /\ [][/\ \A pid \in AskPatientIds, ems \in EmsUnits :
                (/\ complete_transfer(pid, ems)
                 /\ (pid \notin PatientIds \/ patients[pid].ems_unit_id # ems))
                => UNCHANGED patients
          /\ \A pid \in PatientIds :
                (patients[pid].status # "transferred" /\ patients'[pid].status = "transferred")
                => (/\ complete_transfer(pid, patients[pid].ems_unit_id)
                    /\ \A q \in PatientIds \ {pid} : patients'[q] = patients[q])]_vars

C15_Witness ==
    \E pid \in PatientIds, q \in PatientIds, ems \in EmsUnits :
        /\ patients[pid].status = "transferred"
        /\ patients[q].status # "transferred"
        /\ patients[q].ems_unit_id # ems
        /\ complete_transfer_check(q, ems) = "not_owner"

\* C16: a reject_request by the hospital the request is addressed to answers
\* 200, sets the target to rejected with the given reason (the default one
\* when none is given) and changes no other request and no patient.
C16_RejectTouchesOnlyTarget ==
    [][\A rid \in RequestIds, h \in Hospitals, reason \in Reasons :
          (reject_request(rid, h, reason) /\ h = requests[rid].hospital_id)
          => (/\ reject_request_http(rid, h) = HTTP_OK
              /\ requests'[rid].status = "rejected"
              /\ requests'[rid].rejection_reason = IF reason = None THEN DefaultReason ELSE reason
              /\ \A r \in RequestIds \ {rid} : requests'[r] = requests[r]
              /\ Len(requests') = Len(requests)
              /\ patients' = patients)]_vars

C16_Witness ==
    \E rid \in RequestIds :
        /\ requests[rid].status = "rejected"
        /\ requests[rid].rejection_reason = DefaultReason
        /\ \E r \in Siblings(rid) : requests[r].status = "pending"

\* C17: an accept_request or a reject_request on a request that does not
\* exist, or by a hospital other than the one the request is addressed to,
\* answers 404 and changes no TransferRequest, Patient or ChatRoom.
C17_RequestNotFound ==
    /\ [](\A rid \in AskRequestIds, h \in Hospitals :
            (rid \notin RequestIds \/ requests[rid].hospital_id # h)
            => (/\ accept_begin_http(rid, h, "none") = HTTP_NOT_FOUND
                /\ reject_request_http(rid, h) = HTTP_NOT_FOUND))
    /\ [][\A rid \in AskRequestIds, h \in Hospitals, reason \in Reasons :
             (/\ accept_begin(rid, h, "none") \/ reject_request(rid, h, reason)
              /\ (rid \notin RequestIds \/ requests[rid].hospital_id # h))
             => UNCHANGED <<requests, patients, chat_rooms, calls>>]_vars

C17_Witness ==
    \E rid \in RequestIds, h \in Hospitals :
        /\ requests[rid].status = "pending"
        /\ requests[rid].hospital_id # h
        /\ accept_request_check(rid, h, "none") = "not_addressee"
        /\ reject_request_check(rid, h) = "not_addressee"
        /\ accept_request_check(Len(requests) + 1, h, "none") = "absent"

AcceptablePayload(payload) ==
    /\ \E i \in 1..Len(payload.name) : payload.name[i] # " "
    /\ payload.age >= 0 /\ payload.age <= 150
    /\ payload.gender \in {"M", "F"}

\* C19: register with an invalid payload answers a client error and persists
\* no patient; a valid payload, age 0 and age 150 included, is accepted and
\* persists one.
C19_InvalidPayloadIsClientError ==
    /\ [](\A payload \in Payloads :
            register_patient_http(payload)
               = IF AcceptablePayload(payload) THEN HTTP_OK ELSE HTTP_BAD_REQUEST)
    /\ [][\A ems \in Registrars, payload \in Payloads :
             register_patient_begin(ems, payload)
             => Len(patients') = Len(patients) + (IF AcceptablePayload(payload) THEN 1 ELSE 0)]_vars

\* C20: a broadcast does not raise, every connection that was registered in
\* the room when it began and is registered when it ends has been sent the
\* event, and every connection whose send failed is no longer registered.
C20_BroadcastReachesAll ==
    [][\A w \in WebSockets, delivered \in BOOLEAN :
          (broadcast_send(w, delivered) /\ handlers'[w].pc # "bcast")
          => (/\ ~broadcast_raises(w)
              /\ \A c \in handlers[w].at_start :
                    /\ c \in members(active_connections', handlers[w].room_id)
                          => c \in broadcast_sent(w, delivered)
                    /\ c \in broadcast_disconnected(w, delivered)
                          => c \notin members(active_connections', handlers[w].room_id))]_vars

\* C21: no handler that has ended leaves its connection in the registry.
C21_EndedHandlersUnregistered ==
    \A w \in WebSockets :
        handlers[w].pc = "done"
        => \A room_id \in DOMAIN active_connections : w \notin active_connections[room_id]

\* C22: whenever the handler of a registered connection ends, the connection
\* has left the room and every connection then registered in the room has
\* been sent the "left" event of that handler.
C22_LeftEventOnEveryClose ==
    [][\A w \in WebSockets :
          (handlers[w].pc \in {"recv", "bcast"} /\ handlers'[w].pc = "done")
          => LET room_id == handlers[w].room_id
             IN  /\ w \notin members(active_connections', room_id)
                 /\ \A c \in members(active_connections', room_id) :
                       /\ handlers[w].pc = "bcast"
                       /\ handlers[w].event = "left"
                       /\ \E delivered \in BOOLEAN :
                             /\ broadcast_send(w, delivered)
                             /\ c \in broadcast_sent(w, delivered)]_vars

\* C23: a frame that is not JSON, or is JSON but not an object, whose error
\* reply can be sent, stores no message, starts no broadcast, and leaves the
\* connection registered with its handler back at receive_text.
C23_MalformedFrameNotFatal ==
    [][\A w \in WebSockets, frame \in Frames, concurrent \in OtherPosts :
          (/\ frame.kind \in {"not_json", "not_object"}
           /\ ws_receive(w, frame, TRUE, concurrent))
          => /\ chat_messages' = chat_messages
             /\ handlers'[w].pc = "recv"
             /\ w \in members(active_connections', handlers[w].room_id)]_vars

\* C24: a frame stores a message or starts a message broadcast only if the
\* room exists and the sender is its EMS unit declared as ems or its hospital
\* declared as hospital.
C24_OnlyParticipantsPost ==
    [][\A w \in WebSockets, frame \in Frames, replied \in BOOLEAN, concurrent \in OtherPosts :
          (/\ ws_receive(w, frame, replied, concurrent)
           /\ \/ chat_messages' # chat_messages
              \/ handlers'[w].pc = "bcast" /\ handlers'[w].event = "message")
          => /\ frame.kind = "object"
             /\ get_chat_room(handlers[w].room_id) # <<>>
             /\ \/ /\ frame.sender_type = "ems"
                   /\ frame.sender_id = get_chat_room(handlers[w].room_id)[1].ems_unit_id
                \/ /\ frame.sender_type = "hospital"
                   /\ frame.sender_id = get_chat_room(handlers[w].room_id)[1].hospital_id]_vars

\* C25: the message event broadcast for an accepted frame carries the
\* sender_id, sender_type and message of that frame.
C25_BroadcastRoundTrip ==
    [][\A w \in WebSockets, frame \in ObjectFrames, replied \in BOOLEAN, concurrent \in OtherPosts :
          (/\ ws_receive(w, frame, replied, concurrent)
           /\ handlers'[w].pc = "bcast"
           /\ handlers'[w].event = "message")
          => /\ handlers'[w].message.sender_id = frame.sender_id
             /\ handlers'[w].message.sender_type = frame.sender_type
             /\ handlers'[w].message.message = frame.message]_vars

\* C26: every registered connection is registered in a room that exists and
\* was opened by that room's EMS unit or hospital.
C26_OnlyParticipantsRegistered ==
    \A room_id \in DOMAIN active_connections :
        \A w \in active_connections[room_id] :
            /\ get_chat_room(room_id) # <<>>
            /\ opened_by[w] \in {get_chat_room(room_id)[1].ems_unit_id,
                                 get_chat_room(room_id)[1].hospital_id}

\* the connections that joined the room of w's broadcast, and those whose
\* handlers left it, while the broadcast was suspended
JoinedDuring(w) ==
    active_connections[handlers[w].room_id] \ handlers[w].at_start

LeftDuring(w) ==
    {c \in handlers[w].at_start \ active_connections[handlers[w].room_id] :
        handlers[c].pc = "done" \/ (handlers[c].pc = "bcast" /\ handlers[c].event = "left")}

\* C27: when a broadcast resumes from a send during which a connection
\* joined or left its room, it does not raise, it keeps the joined
\* connections registered, its handler ends only if it was the handler's
\* departure broadcast, and when it returns every connection registered at
\* its start and still registered has been sent the event.
C27_JoinLeaveDuringBroadcast ==
    [][\A w \in WebSockets, delivered \in BOOLEAN :
          (/\ broadcast_send(w, delivered)
           /\ JoinedDuring(w) \cup LeftDuring(w) # {})
          => /\ ~broadcast_raises(w)
             /\ JoinedDuring(w) \subseteq members(active_connections', handlers[w].room_id)
             /\ handlers'[w].pc = "done" => handlers[w].next = "done"
             /\ handlers'[w].pc # "bcast"
                   => \A c \in handlers[w].at_start \cap members(active_connections', handlers[w].room_id) :
                         c \in broadcast_sent(w, delivered)]_vars

\* C28: no connection is delivered the event of a broadcast after it has
\* been delivered the event of a broadcast of its room that was called later.
C28_DeliveryInInvocationOrder ==
    [][\A w \in WebSockets :
          broadcast_send(w, TRUE) => handlers[w].cur \notin overtaken[w]]_vars

\* the steps of the accept_request invocation on rid, storage calls succeeding
accept_request_step(rid) ==
    \/ \E h \in Hospitals : accept_begin(rid, h, "none")
    \/ accept_read(rid, "none")
    \/ \E r \in RequestIds : accept_cancel(rid, r, "none")
    \/ accept_finish(rid, "none")

\* C29: a step of accept_request leaves every patient record as it is and
\* changes no request but its target and requests of the target's patient
\* that are pending; of these it changes the status only.
C29_AcceptFrame ==
    [][\A rid \in RequestIds :
          accept_request_step(rid)
          => /\ patients' = patients
             /\ \A r \in RequestIds :
                   requests'[r] # requests[r]
                   => /\ requests'[r] = [requests[r] EXCEPT !.status = requests'[r].status]
                      /\ \/ r = rid
                         \/ /\ requests[r].patient_id = requests[rid].patient_id
                            /\ requests[r].status = "pending"]_vars

\* C30: a complete_transfer changes no request, no chat room and no patient
\* other than its own, of which it changes the status only; and whatever the
\* status of the patient, an accept_request on a pending request by the
\* hospital it is addressed to writes accepted on it, and a reject_request
\* writes rejected.
C30_CompleteTransferFrame ==
    /\ [][\A pid \in AskPatientIds, ems \in EmsUnits :
             complete_transfer(pid, ems)
             => /\ requests' = requests
                /\ chat_rooms' = chat_rooms
                /\ \A p \in PatientIds :
                      /\ p # pid => patients'[p] = patients[p]
                      /\ patients'[p] = [patients[p] EXCEPT !.status = patients'[p].status]]_vars
    /\ [][\A rid \in RequestIds, h \in Hospitals :
             (/\ accept_begin(rid, h, "none")
              /\ h = requests[rid].hospital_id
              /\ requests[rid].status = "pending")
             => requests' = update_transfer_request(requests, rid, "accepted")]_vars
    /\ [][\A rid \in RequestIds, h \in Hospitals, reason \in Reasons :
             (/\ reject_request(rid, h, reason)
              /\ h = requests[rid].hospital_id
              /\ requests[rid].status = "pending")
             => requests'[rid].status = "rejected"]_vars

\* a transferred patient with a request that is still pending and one that a
\* hospital is accepting or has rejected
C30_Witness ==
    \E pid \in PatientIds :
        /\ patients[pid].status = "transferred"
        /\ \E r \in get_requests_for_patient(pid) : requests[r].status = "pending"
        /\ \E r \in get_requests_for_patient(pid) :
              \/ requests[r].status = "rejected"
              \/ requests[r].status = "accepted" /\ calls[r].pc # "idle"
====
